---- MODULE Spec2Model ----
(***************************************************************************)
(* Model of the BLS signature core (crates/bls-crypto/src/bls/signature.rs)*)
(* and of the y-bit gadget (crates/bls-gadgets/src/y_to_bit.rs).           *)
(*                                                                         *)
(* The base field Fq of BLS12-377 is scaled down to a small prime field    *)
(* F_P, the curve keeps its equation y^2 = x^3 + a*x + b with a = 0 and    *)
(* b = 1, and the field serializer keeps its shape: L little-endian bytes  *)
(* whose top bit (0x80 of byte L-1) is never used by a field element.      *)
(* Every operation is one action: it fires from the idle state on inputs   *)
(* drawn from bounded sets and records what it was given (inp) and what it *)
(* returned (out); Done hands control back to the caller.                  *)
(***************************************************************************)
EXTENDS Integers, Naturals, Sequences, FiniteSets, TLC

VARIABLES op, inp, out

vars == <<op, inp, out>>

(***************************************************************************)
(* Bounds of the model.                                                    *)
(***************************************************************************)
\* index into Primes of the field modulus in use
PrimeIdx == 2

\* longest batch of public keys, hashes and message records
MaxBatch == 2

\* largest multiple of a generator the inputs name
MaxScalar == 2

(***************************************************************************)
(* The prime field Fq.                                                     *)
(***************************************************************************)
\* moduli P with P % 3 = 2: the curve y^2 = x^3 + 1 over F_P is then cyclic
\* of order P + 1, which the pairing model below relies on
Primes == <<5, 11, 17, 23, 29>>

P == Primes[PrimeIdx]

Fq == 0 .. (P - 1)

\* Fq::modulus_minus_one_div_two()
half == (P - 1) \div 2

fadd(a, b) == (a + b) % P

fsub(a, b) == (a + P - b) % P

fmul(a, b) == (a * b) % P

fneg(a) == (P - a) % P

\* Field::inverse(): None for zero
inverse(a) == IF a = 0 THEN <<>> ELSE <<CHOOSE b \in Fq : fmul(a, b) = 1>>

unwrap_or_zero(o) == IF o = <<>> THEN 0 ELSE o[1]

\* a boolean as the field element the constraint system sees
bool2f(c) == IF c THEN 1 ELSE 0

(***************************************************************************)
(* The y-bit gadget.  A gadget call allocates variables and emits rank-1   *)
(* constraints; *_witness is the assignment the code computes, *_cs the    *)
(* conjunction of the constraints the call emits (cs.is_satisfied()).      *)
(***************************************************************************)
\* Boolean::alloc: the allocated bit is constrained to be 0 or 1
boolean_cs(bit) == fmul(bit, fsub(1, bit)) = 0

\* FpGadget::enforce_smaller_or_equal_than_mod_minus_one_div_two
enforce_smaller_or_equal_than_mod_minus_one_div_two(v) == v <= half

\* normalize's witness with the comparison off by one (el >= half)
normalize_witness_ge(el) ==
    [bit |-> bool2f(el >= half),
     adjusted |-> IF el >= half THEN fsub(el, half) ELSE el]

normalize_witness(el) ==
    [bit |-> bool2f(el > half),
     adjusted |-> IF el > half THEN fsub(el, half) ELSE el]

normalize_cs(el, bit, adjusted) ==
    /\ boolean_cs(bit)
    \* "check bit": 1 * (el + (-half) * bit) = adjusted
    /\ fmul(1, fadd(el, fmul(fneg(half), bit))) = adjusted
    /\ enforce_smaller_or_equal_than_mod_minus_one_div_two(adjusted)

is_eq_zero_witness(el) ==
    [bit |-> bool2f(el = 0),
     inv |-> unwrap_or_zero(inverse(el))]

\* "enforce y_eq_bit": el * inv = 1 - bit
is_eq_zero_inv_cs(el, bit, inv) ==
    fmul(el, inv) = fadd(1, fmul(fneg(1), bit))

\* the second constraint with inv in the place of el: inv * bit = 0
is_eq_zero_bit_cs_on_inv(el, bit, inv) == fmul(inv, bit) = 0

\* "enforce y_eq_bit 2": el * bit = 0
is_eq_zero_bit_cs(el, bit, inv) == fmul(el, bit) = 0

is_eq_zero_cs(el, bit, inv) ==
    /\ boolean_cs(bit)
    /\ is_eq_zero_inv_cs(el, bit, inv)
    /\ is_eq_zero_bit_cs(el, bit, inv)

\* Boolean::and on two allocated bits: allocates a & b and enforces a * b = c
and_witness(a, b) == bool2f(a = 1 /\ b = 1)

and_cs(a, b, c) == fmul(a, b) = c

y_to_bit_g1_witness(y) == normalize_witness(y)

y_to_bit_g1_cs(y, w) == normalize_cs(y, w.bit, w.adjusted)

y_to_bit_g2_witness(c0, c1) ==
    LET n0 == normalize_witness(c0)
        n1 == normalize_witness(c1)
        z  == is_eq_zero_witness(c1)
    IN  [y_bit |-> bool2f(c1 > half \/ (c1 = 0 /\ c0 > half)),
         y_c0_bit |-> n0.bit, c0_adjusted |-> n0.adjusted,
         y_c1_bit |-> n1.bit, c1_adjusted |-> n1.adjusted,
         y_eq_bit |-> z.bit, inv |-> z.inv,
         bc |-> and_witness(z.bit, n0.bit)]

y_to_bit_g2_cs(c0, c1, w) ==
    /\ boolean_cs(w.y_bit)
    /\ normalize_cs(c0, w.y_c0_bit, w.c0_adjusted)
    /\ normalize_cs(c1, w.y_c1_bit, w.c1_adjusted)
    /\ is_eq_zero_cs(c1, w.y_eq_bit, w.inv)
    /\ and_cs(w.y_eq_bit, w.y_c0_bit, w.bc)
    \* "enforce y bit derived correctly": (1 - c1_bit) * bc = y_bit - c1_bit
    /\ fmul(fadd(1, fmul(fneg(1), w.y_c1_bit)), fmul(1, w.bc))
         = fadd(fmul(1, w.y_bit), fmul(fneg(1), w.y_c1_bit))

\* the sign convention y_to_bit_g2 is meant to compute
g2_sign(c0, c1) == c1 > half \/ (c1 = 0 /\ c0 > half)

(***************************************************************************)
(* The curve E: y^2 = x^3 + COEFF_A*x + COEFF_B over Fq and its group.     *)
(* A G1Projective value is modelled by the affine point it represents      *)
(* (into_affine), so equality of records is equality of projective points. *)
(***************************************************************************)
\* Bls12_377G1Parameters::COEFF_A, used by mul_by_a
COEFF_A == 0

\* Bls12_377G1Parameters::COEFF_B, used by add_b
COEFF_B == 1

mul_by_a(x) == fmul(COEFF_A, x)

add_b(v) == fadd(v, COEFF_B)

\* G1Affine::new(x, y, infinity)
G1Affine_new(x, y, infinity) == [x |-> x, y |-> y, infinity |-> infinity]

\* G1Projective::zero(); its affine form is G1Affine::zero() = (0, 1, true)
G1_zero == G1Affine_new(0, 1, TRUE)

\* the right-hand side of the curve equation, as read computes it
curve_rhs(x) == add_b(fadd(fmul(fmul(x, x), x), mul_by_a(x)))

\* the points a signature can hold: the points of the curve and the identity
G1Points ==
    {G1_zero} \cup
    {G1Affine_new(x, y, FALSE) : <<x, y>> \in
        {xy \in Fq \X Fq : fmul(xy[2], xy[2]) = curve_rhs(xy[1])}}

fdiv(a, b) == fmul(a, unwrap_or_zero(inverse(b)))

\* G1Projective + G1Projective: the chord-and-tangent law
g1_add(p, q) ==
    IF p.infinity THEN q
    ELSE IF q.infinity THEN p
    ELSE IF p.x = q.x /\ p.y = fneg(q.y) THEN G1_zero
    ELSE LET lam == IF p.x = q.x
                    THEN fdiv(fadd(fmul(3, fmul(p.x, p.x)), COEFF_A),
                              fmul(2, p.y))
                    ELSE fdiv(fsub(q.y, p.y), fsub(q.x, p.x))
             x3  == fsub(fsub(fmul(lam, lam), p.x), q.x)
         IN  G1Affine_new(x3, fsub(fmul(lam, fsub(p.x, x3)), p.y), FALSE)

\* the order of the group
GroupOrder == Cardinality(G1Points)

RECURSIVE g1_mul(_, _)
g1_mul(k, p) == IF k = 0 THEN G1_zero ELSE g1_add(g1_mul(k - 1, p), p)

\* G1 generator: a point whose multiples are the whole group
g1_generator ==
    CHOOSE g \in G1Points :
        {g1_mul(k, g) : k \in 0 .. (GroupOrder - 1)} = G1Points

\* the discrete logarithm of every point, the handle the pairing model needs
dlog == [p \in G1Points |->
            CHOOSE k \in 0 .. (GroupOrder - 1) : g1_mul(k, g1_generator) = p]

(***************************************************************************)
(* Signature encoding (ToBytes / FromBytes).                               *)
(***************************************************************************)
\* width in bytes of a serialized field element (48 for BLS12-377's Fq,
\* whose top bit is unused; 2 for the model's field, with the same property)
L == 2

\* Fq::write: the integer representation as L little-endian bytes
Fq_write(x) == [i \in 1 .. L |-> (x \div (256 ^ (i - 1))) % 256]

RECURSIVE le_value(_, _)
le_value(bytes, n) ==
    IF n = 0 THEN 0 ELSE le_value(bytes, n - 1) + bytes[n] * (256 ^ (n - 1))

Ok(v) == [kind |-> "ok", value |-> v]

Err(e) == [kind |-> "err", error |-> e]

Panic == [kind |-> "panic"]

\* Fq::read: read_exact of L bytes, then from_repr, which refuses values >= P
Fq_read(bytes) ==
    IF Len(bytes) < L THEN Err("UnexpectedEof")
    ELSE IF le_value(bytes, L) >= P THEN Err("InvalidFieldElement")
    ELSE Ok(le_value(bytes, L))

\* SquareRootField::sqrt: None for a non-residue; for a residue one of the
\* two roots, which one being the library's business (pick names it)
sqrt(t, pick) ==
    LET roots == {s \in Fq : fmul(s, s) = t}
    IN  IF roots = {} THEN <<>>
        ELSE IF pick = 0
             THEN <<CHOOSE s \in roots : \A r \in roots : s <= r>>
             ELSE <<CHOOSE s \in roots : \A r \in roots : s >= r>>

\* impl ToBytes for Signature: the bytes handed to the writer
write(sig) ==
    LET affine  == sig
        x_bytes == Fq_write(affine.x)
    IN  IF affine.y > half
        THEN [x_bytes EXCEPT ![Len(x_bytes)] =
                 IF @ >= 128 THEN @ ELSE @ + 128]
        ELSE x_bytes

\* impl FromBytes for Signature, on a reader holding `stream`
read(stream, pick) ==
    LET x_bytes_with_y_len == Len(stream)
    IN  IF x_bytes_with_y_len = 0 THEN Panic
        ELSE
        LET y_over_half == stream[x_bytes_with_y_len] >= 128
            x_bytes_with_y ==
                [stream EXCEPT ![x_bytes_with_y_len] = @ % 128]
            x == Fq_read(x_bytes_with_y)
        IN  IF x.kind = "err" THEN x
            ELSE
            LET x3b == curve_rhs(x.value)
                y   == sqrt(x3b, pick)
            IN  IF y = <<>> THEN Err("NotFound")
                ELSE
                LET negy == fneg(y[1])
                    chosen_y ==
                        IF (y[1] <= negy) # y_over_half THEN y[1] ELSE negy
                IN  Ok(G1Affine_new(x.value, chosen_y, FALSE))

\* how many bytes of the reader a call of read has consumed: read_to_end
\* drains it
read_consumed(stream) == Len(stream)

(***************************************************************************)
(* The pairing.  A PublicKey is a multiple s*g2 of the G2 generator and is *)
(* modelled by s; Fq12 is written additively, as the exponents of          *)
(* e(g1, g2), so that e(k*g1, s*g2) is k*s and Fq12::one() is 0.           *)
(***************************************************************************)
\* G2Affine::prime_subgroup_generator()
g2_generator == 1

g2_neg(q) == (GroupOrder - q) % GroupOrder

Fq12_one == 0

pairing(p, q) == (dlog[p] * q) % GroupOrder

\* Bls12_377::product_of_pairings
RECURSIVE product_of_pairings_from(_, _)
product_of_pairings_from(els, i) ==
    IF i > Len(els) THEN Fq12_one
    ELSE (pairing(els[i][1], els[i][2]) + product_of_pairings_from(els, i + 1))
            % GroupOrder

product_of_pairings(els) == product_of_pairings_from(els, 1)

(***************************************************************************)
(* Signature: aggregate, batch_verify_hashes, batch_verify.                *)
(***************************************************************************)
\* the loop of aggregate with `asig = sig` in place of `asig = asig + sig`
RECURSIVE aggregate_from_overwrite(_, _, _)
aggregate_from_overwrite(signatures, i, asig) ==
    IF i > Len(signatures) THEN asig
    ELSE aggregate_from_overwrite(signatures, i + 1, signatures[i])

RECURSIVE aggregate_from(_, _, _)
aggregate_from(signatures, i, asig) ==
    IF i > Len(signatures) THEN asig
    ELSE aggregate_from(signatures, i + 1, g1_add(asig, signatures[i]))

\* aggregate with the loop starting one element late
aggregate_skip_first(signatures) == aggregate_from(signatures, 2, G1_zero)

\* Signature::aggregate
aggregate(signatures) == aggregate_from(signatures, 1, G1_zero)

\* Iterator::zip: pairs up to the shorter of the two
zip(a, b) ==
    [i \in 1 .. (IF Len(a) <= Len(b) THEN Len(a) ELSE Len(b)) |->
        <<a[i], b[i]>>]

VerificationFailed == Err("VerificationFailed")

HashToCurveFailed(message, extra_data) ==
    [kind |-> "err", error |-> "HashToCurveFailed",
     message |-> message, extra_data |-> extra_data]

\* batch_verify_hashes pairing the signature with g2 instead of -g2
batch_verify_hashes_no_neg(sig, pubkeys, message_hashes) ==
    LET els == <<<<sig, g2_generator>>>> \o zip(message_hashes, pubkeys)
        pairing_value == product_of_pairings(els)
    IN  IF pairing_value = Fq12_one THEN Ok("unit") ELSE VerificationFailed

\* batch_verify_hashes refusing keys and hashes of different lengths
batch_verify_hashes_same_len(sig, pubkeys, message_hashes) ==
    IF Len(pubkeys) # Len(message_hashes) THEN VerificationFailed
    ELSE LET els == <<<<sig, g2_neg(g2_generator)>>>>
                        \o zip(message_hashes, pubkeys)
         IN  IF product_of_pairings(els) = Fq12_one
             THEN Ok("unit") ELSE VerificationFailed

\* Signature::batch_verify_hashes
batch_verify_hashes(sig, pubkeys, message_hashes) ==
    LET els == <<<<sig, g2_neg(g2_generator)>>>> \o zip(message_hashes, pubkeys)
        pairing_value == product_of_pairings(els)
    IN  IF pairing_value = Fq12_one THEN Ok("unit") ELSE VerificationFailed

\* what the hash-to-G1 oracle answers when it cannot map a record
HashFail == [failed |-> TRUE]

\* messages.iter().map(hash).collect::<Result<Vec<_>, _>>(): the hashes in
\* order, or the error of the first record the oracle fails on
RECURSIVE collect_hashes(_, _, _, _)
collect_hashes(messages, hash_to_g1, i, acc) ==
    IF i > Len(messages) THEN Ok(acc)
    ELSE IF hash_to_g1[messages[i]] = HashFail
         THEN HashToCurveFailed(messages[i][1], messages[i][2])
         ELSE collect_hashes(messages, hash_to_g1, i + 1,
                             Append(acc, hash_to_g1[messages[i]]))

\* batch_verify naming the last record the oracle fails on, not the first
batch_verify_last_failure(sig, pubkeys, messages, hash_to_g1) ==
    LET failing == {i \in 1 .. Len(messages) :
                        hash_to_g1[messages[i]] = HashFail}
        last == CHOOSE i \in failing : \A j \in failing : j <= i
    IN  IF failing = {}
        THEN batch_verify_hashes(sig, pubkeys,
                 [i \in 1 .. Len(messages) |-> hash_to_g1[messages[i]]])
        ELSE HashToCurveFailed(messages[last][1], messages[last][2])

\* Signature::batch_verify; hash_to_g1 is the oracle on the call's domain
batch_verify(sig, pubkeys, messages, hash_to_g1) ==
    LET message_hashes == collect_hashes(messages, hash_to_g1, 1, <<>>)
    IN  IF message_hashes.kind = "err" THEN message_hashes
        ELSE batch_verify_hashes(sig, pubkeys, message_hashes.value)

(***************************************************************************)
(* Actions.                                                                *)
(***************************************************************************)
NoValue == [none |-> TRUE]

Init ==
    /\ op = "idle"
    /\ inp = NoValue
    /\ out = NoValue

\* y_to_bit_g1 run by the code itself: witness generation and constraints
YToBitG1 ==
    /\ op = "idle"
    /\ \E y \in Fq :
         LET w == y_to_bit_g1_witness(y)
         IN  /\ op' = "y_to_bit_g1"
             /\ inp' = [y |-> y]
             /\ out' = [bit |-> w.bit, w |-> w,
                        is_satisfied |-> y_to_bit_g1_cs(y, w)]

\* y_to_bit_g2 run by the code itself
YToBitG2 ==
    /\ op = "idle"
    /\ \E c0 \in Fq, c1 \in Fq :
         LET w == y_to_bit_g2_witness(c0, c1)
         IN  /\ op' = "y_to_bit_g2"
             /\ inp' = [c0 |-> c0, c1 |-> c1]
             /\ out' = [bit |-> w.y_bit, w |-> w,
                        is_satisfied |-> y_to_bit_g2_cs(c0, c1, w)]

\* normalize's constraints with an assignment of the prover's choosing
ProveNormalize ==
    /\ op = "idle"
    /\ \E el \in Fq, bit \in Fq, adjusted \in Fq :
         /\ normalize_cs(el, bit, adjusted)
         /\ op' = "prove_normalize"
         /\ inp' = [el |-> el]
         /\ out' = [bit |-> bit, adjusted |-> adjusted]

\* y_to_bit_g2's constraints with an assignment of the prover's choosing
ProveYToBitG2 ==
    /\ op = "idle"
    /\ \E c0 \in Fq, c1 \in Fq :
       \E b0 \in Fq, a0 \in Fq :
         /\ normalize_cs(c0, b0, a0)
         /\ \E b1 \in Fq, a1 \in Fq :
              /\ normalize_cs(c1, b1, a1)
              /\ \E z \in Fq, i \in Fq :
                   /\ is_eq_zero_cs(c1, z, i)
                   /\ \E bc \in Fq, b \in Fq :
                        LET w == [y_bit |-> b,
                                  y_c0_bit |-> b0, c0_adjusted |-> a0,
                                  y_c1_bit |-> b1, c1_adjusted |-> a1,
                                  y_eq_bit |-> z, inv |-> i, bc |-> bc]
                        IN  /\ y_to_bit_g2_cs(c0, c1, w)
                            /\ op' = "prove_y_to_bit_g2"
                            /\ inp' = [c0 |-> c0, c1 |-> c1]
                            /\ out' = [bit |-> b, w |-> w]

\* is_eq_zero on el with an assignment (bit, inv) of the prover's choosing,
\* and which of the emitted constraints that assignment satisfies
ProveIsEqZero ==
    /\ op = "idle"
    /\ \E el \in Fq, bit \in Fq, inv \in Fq :
         /\ boolean_cs(bit)
         /\ op' = "prove_is_eq_zero"
         /\ inp' = [el |-> el]
         /\ out' = [bit |-> bit, inv |-> inv,
                    inv_cs |-> is_eq_zero_inv_cs(el, bit, inv),
                    bit_cs |-> is_eq_zero_bit_cs(el, bit, inv),
                    is_satisfied |-> is_eq_zero_cs(el, bit, inv)]

\* the bytes a reader may hold: every field element and one value past the
\* modulus in the low seven bits, with the top bit clear or set
ByteVals == {b \in 0 .. 255 : b % 128 <= P}

\* readers of up to one byte more than a serialized signature
Streams == UNION {[1 .. n -> ByteVals] : n \in 0 .. (L + 1)}

\* Signature::write on a writer that starts empty
Write ==
    /\ op = "idle"
    /\ \E sig \in G1Points :
         /\ op' = "write"
         /\ inp' = [sig |-> sig]
         /\ out' = [bytes |-> write(sig)]

\* Signature::read on a reader holding an arbitrary byte stream
Read ==
    /\ op = "idle"
    /\ \E stream \in Streams, pick \in {0, 1} :
         /\ op' = "read"
         /\ inp' = [stream |-> stream]
         /\ out' = [result |-> read(stream, pick),
                    consumed |-> read_consumed(stream)]

\* Signature::write followed by Signature::read of the bytes written
WriteRead ==
    /\ op = "idle"
    /\ \E sig \in G1Points, pick \in {0, 1} :
         /\ op' = "write_read"
         /\ inp' = [sig |-> sig]
         /\ out' = [bytes |-> write(sig), result |-> read(write(sig), pick)]

\* sequences over S of length at most n
SeqsUpTo(S, n) == UNION {[1 .. k -> S] : k \in 0 .. n}

\* the signatures, hashes, public keys and message records the calls are run on
SigChoices == {g1_mul(k, g1_generator) : k \in 0 .. (MaxScalar + 1)}

HashChoices == {g1_mul(k, g1_generator) : k \in 0 .. MaxScalar}

PkChoices == 0 .. MaxScalar

\* (message, extra_data) records
MsgRecords == {<<"hello", "">>, <<"hello", "x">>}

\* Signature::aggregate on a slice of signatures
Aggregate ==
    /\ op = "idle"
    /\ \E signatures \in SeqsUpTo(SigChoices, MaxBatch + 1) :
         /\ op' = "aggregate"
         /\ inp' = [signatures |-> signatures]
         \* the slice is borrowed immutably: it is the same after the call
         /\ out' = [sig |-> aggregate(signatures),
                    signatures |-> signatures]

\* Signature::batch_verify_hashes
BatchVerifyHashes ==
    /\ op = "idle"
    /\ \E sig \in G1Points,
          pubkeys \in SeqsUpTo(PkChoices, MaxBatch),
          message_hashes \in SeqsUpTo(HashChoices, MaxBatch) :
         /\ op' = "batch_verify_hashes"
         /\ inp' = [sig |-> sig, pubkeys |-> pubkeys,
                    message_hashes |-> message_hashes]
         /\ out' = [result |-> batch_verify_hashes(sig, pubkeys, message_hashes)]

\* Signature::batch_verify with a hash-to-G1 oracle that may fail
BatchVerify ==
    /\ op = "idle"
    /\ \E sig \in SigChoices,
          pubkeys \in SeqsUpTo(PkChoices, MaxBatch),
          messages \in SeqsUpTo(MsgRecords, MaxBatch),
          hash_to_g1 \in [MsgRecords -> HashChoices \cup {HashFail}] :
         /\ op' = "batch_verify"
         /\ inp' = [sig |-> sig, pubkeys |-> pubkeys, messages |-> messages,
                    hash_to_g1 |-> hash_to_g1]
         /\ out' = [result |-> batch_verify(sig, pubkeys, messages, hash_to_g1)]

\* n signatures aggregated and batch-verified against n keys and n hashes,
\* and each of them verified alone
AggregateVerify ==
    /\ op = "idle"
    /\ \E n \in 0 .. MaxBatch :
       \E sigs \in [1 .. n -> SigChoices],
          pubkeys \in [1 .. n -> PkChoices],
          message_hashes \in [1 .. n -> HashChoices] :
         /\ op' = "aggregate_verify"
         /\ inp' = [sigs |-> sigs, pubkeys |-> pubkeys,
                    message_hashes |-> message_hashes]
         /\ out' = [asig |-> aggregate(sigs),
                    result |-> batch_verify_hashes(aggregate(sigs), pubkeys,
                                                   message_hashes),
                    each |-> [i \in 1 .. n |->
                                batch_verify_hashes(sigs[i], <<pubkeys[i]>>,
                                                    <<message_hashes[i]>>)]]

\* the call returns to its caller
Done ==
    /\ op # "idle"
    /\ op' = "idle"
    /\ inp' = NoValue
    /\ out' = NoValue

NextGadget ==
    \/ YToBitG1
    \/ YToBitG2
    \/ ProveNormalize
    \/ ProveYToBitG2
    \/ ProveIsEqZero
    \/ Done

NextCodec ==
    \/ Write
    \/ Read
    \/ WriteRead
    \/ Done

NextBls ==
    \/ Aggregate
    \/ BatchVerifyHashes
    \/ BatchVerify
    \/ AggregateVerify
    \/ Done

Next ==
    \/ NextGadget
    \/ NextCodec
    \/ NextBls

\* the gadget's entry points
SpecGadget == Init /\ [][NextGadget]_vars

\* the signature encoding
SpecCodec == Init /\ [][NextCodec]_vars

\* aggregation and batch verification
SpecBls == Init /\ [][NextBls]_vars

Spec == Init /\ [][Next]_vars

(***************************************************************************)
(* Properties.                                                             *)
(***************************************************************************)
\* the high bit of the last byte of a reader's stream
y_over_half_of(stream) == stream[Len(stream)] >= 128

\* C1: whenever read decodes a byte stream into a point (x, y), the gadget's
\* sign bit of y (1 iff y > half) equals the high bit of the last input byte,
\* for every x whose curve right-hand side has a root, zero included
C1_DecoderAgreesWithGadget ==
    (op = "read" /\ out.result.kind = "ok") =>
        y_to_bit_g1_witness(out.result.value.y).bit
            = bool2f(y_over_half_of(inp.stream))

\* C2: reading the bytes written for a signature gives that signature back,
\* for every signature, the identity included
C2_RoundTrip ==
    op = "write_read" => out.result = Ok(inp.sig)

\* C3: every assignment satisfying the constraints of y_to_bit_g2 has
\* y_bit = 1 exactly when c1 > half, or c1 = 0 and c0 > half
C3_G2Sound ==
    op = "prove_y_to_bit_g2" =>
        (out.bit = 1 <=> g2_sign(inp.c0, inp.c1))

\* C4: the assignment the gadgets compute satisfies every constraint they
\* emit, and the bit returned is y > half for y_to_bit_g1 and
\* (c1 > half or (c1 = 0 and c0 > half)) for y_to_bit_g2
C4_GadgetsComplete ==
    /\ op = "y_to_bit_g1" =>
         /\ out.is_satisfied
         /\ out.bit = bool2f(inp.y > half)
    /\ op = "y_to_bit_g2" =>
         /\ out.is_satisfied
         /\ out.bit = bool2f(g2_sign(inp.c0, inp.c1))

\* C4's case: y_to_bit_g2 on c1 = 0 and c0 > half returns 1 with every
\* constraint satisfied
C4_Witness ==
    /\ op = "y_to_bit_g2"
    /\ inp.c1 = 0
    /\ inp.c0 > half
    /\ out.bit = 1
    /\ out.is_satisfied

\* the sum over i of dlog(hashes[i]) * pubkeys[i], modulo the group order
RECURSIVE HashKeySum(_, _, _)
HashKeySum(message_hashes, pubkeys, n) ==
    IF n = 0 THEN 0
    ELSE (HashKeySum(message_hashes, pubkeys, n - 1)
            + dlog[message_hashes[n]] * pubkeys[n]) % GroupOrder

\* e(sig, -g2) * PROD e(h_i, pk_i) = 1, stated on the discrete logarithms:
\* sig = SUM pk_i * h_i
PairingEquation(sig, pubkeys, message_hashes) ==
    dlog[sig] = HashKeySum(message_hashes, pubkeys, Len(pubkeys))

\* C5: on keys and hashes of equal length n >= 0, batch_verify_hashes returns
\* Ok exactly when e(sig, -g2) * PROD e(h_i, pk_i) = 1 and VerificationFailed
\* otherwise; for n = 0 it returns Ok exactly when sig is the identity
C5_BatchVerifyHashesDecidesEquation ==
    (op = "batch_verify_hashes"
        /\ Len(inp.pubkeys) = Len(inp.message_hashes)) =>
        /\ out.result = Ok("unit")
             <=> PairingEquation(inp.sig, inp.pubkeys, inp.message_hashes)
        /\ out.result # Ok("unit") => out.result = VerificationFailed
        /\ Len(inp.pubkeys) = 0 =>
             (out.result = Ok("unit") <=> inp.sig = G1_zero)

\* C5's case: a batch of two accepted for a signature that is not the identity
C5_Witness ==
    /\ op = "batch_verify_hashes"
    /\ Len(inp.pubkeys) = 2
    /\ Len(inp.message_hashes) = 2
    /\ inp.sig # G1_zero
    /\ \A i \in 1 .. 2 : inp.pubkeys[i] # 0 /\ inp.message_hashes[i] # G1_zero
    /\ out.result = Ok("unit")

\* the (public key, hash) pairs of a batch are pairwise distinct
DistinctPairs(pubkeys, message_hashes) ==
    \A i, j \in 1 .. Len(pubkeys) :
        i # j => <<pubkeys[i], message_hashes[i]>>
                    # <<pubkeys[j], message_hashes[j]>>

\* C6 as stated: on pairwise distinct (key, hash) pairs the aggregate of
\* sigma_1..sigma_n is accepted if and only if every sigma_i is valid alone
C6_AggregateIffEach ==
    (op = "aggregate_verify"
        /\ DistinctPairs(inp.pubkeys, inp.message_hashes)) =>
        (out.result = Ok("unit")
            <=> \A i \in 1 .. Len(inp.sigs) : out.each[i] = Ok("unit"))

\* C6 amended: if every sigma_i is valid alone for (pk_i, h_i) then the
\* aggregate of sigma_1..sigma_n is accepted against the n keys and hashes
C6_EachImpliesAggregate ==
    (op = "aggregate_verify"
        /\ DistinctPairs(inp.pubkeys, inp.message_hashes)
        /\ \A i \in 1 .. Len(inp.sigs) : out.each[i] = Ok("unit")) =>
        out.result = Ok("unit")

\* C6's case: two valid signatures, neither the identity, on distinct pairs,
\* and their aggregate accepted
C6_Witness ==
    /\ op = "aggregate_verify"
    /\ Len(inp.sigs) = 2
    /\ DistinctPairs(inp.pubkeys, inp.message_hashes)
    /\ \A i \in 1 .. 2 : inp.sigs[i] # G1_zero /\ out.each[i] = Ok("unit")
    /\ out.result = Ok("unit")

\* the indices of the records the oracle cannot map
FailingRecords(messages, hash_to_g1) ==
    {i \in 1 .. Len(messages) : hash_to_g1[messages[i]] = HashFail}

\* C7: if the oracle fails on some record, batch_verify returns
\* HashToCurveFailed(message_i, extra_data_i) for the smallest such index i,
\* whatever the signature and keys; otherwise its result is that of
\* batch_verify_hashes on the hashes of the records in order
C7_HashFailureReported ==
    op = "batch_verify" =>
        LET failing == FailingRecords(inp.messages, inp.hash_to_g1)
            first == CHOOSE i \in failing : \A j \in failing : i <= j
        IN  IF failing # {}
            THEN out.result = HashToCurveFailed(inp.messages[first][1],
                                                inp.messages[first][2])
            ELSE out.result =
                    batch_verify_hashes(inp.sig, inp.pubkeys,
                        [i \in 1 .. Len(inp.messages) |->
                            inp.hash_to_g1[inp.messages[i]]])

\* C7's case: the oracle fails on two different records of a batch whose
\* pairing equation would otherwise be checked, and the first is reported
C7_Witness ==
    /\ op = "batch_verify"
    /\ Len(inp.messages) = 2
    /\ inp.messages[1] # inp.messages[2]
    /\ FailingRecords(inp.messages, inp.hash_to_g1) = {1, 2}
    /\ out.result = HashToCurveFailed(inp.messages[1][1], inp.messages[1][2])

\* C8: read never panics, consumes exactly L bytes (what follows them is left
\* unread and does not change the result, the sign bit being that of byte
\* L-1), and reports a short read on fewer than L bytes, none included
C8_ReadConsumesL ==
    op = "read" =>
        /\ out.result.kind \in {"ok", "err"}
        /\ Len(inp.stream) < L => out.result = Err("UnexpectedEof")
        /\ Len(inp.stream) >= L =>
             /\ out.consumed = L
             /\ \E pick \in {0, 1} :
                    out.result = read(SubSeq(inp.stream, 1, L), pick)

\* the sum of a sequence of points, by their discrete logarithms
RECURSIVE DlogSum(_, _)
DlogSum(signatures, n) ==
    IF n = 0 THEN 0
    ELSE (DlogSum(signatures, n - 1) + dlog[signatures[n]]) % GroupOrder

GroupSum(signatures) ==
    g1_mul(DlogSum(signatures, Len(signatures)), g1_generator)

\* C9: aggregate returns the sum of its inputs in G1, the same for every
\* permutation of them, and the identity for no inputs; the inputs are the
\* same after the call
C9_AggregateIsSum ==
    op = "aggregate" =>
        LET n == Len(inp.signatures)
        IN  /\ out.sig = GroupSum(inp.signatures)
            /\ \A pi \in Permutations(1 .. n) :
                   aggregate([i \in 1 .. n |-> inp.signatures[pi[i]]])
                       = out.sig
            /\ n = 0 => out.sig = G1_zero
            /\ out.signatures = inp.signatures

\* C9's case: three different signatures aggregated
C9_Witness ==
    /\ op = "aggregate"
    /\ Len(inp.signatures) = 3
    /\ Cardinality({inp.signatures[i] : i \in 1 .. 3}) = 3
    /\ out.sig = GroupSum(inp.signatures)
    /\ out.sig # G1_zero

\* C10: every assignment satisfying normalize's constraints has bit = 1
\* exactly when el > half, so that no el admits both values of the bit
C10_NormalizeBitUnique ==
    op = "prove_normalize" => (out.bit = 1 <=> inp.el > half)

\* C11: every assignment (bit, inv) with bit in {0, 1} that satisfies both
\* constraints of is_eq_zero has bit = 1 exactly when el = 0; an assignment
\* that satisfies only el * inv = 1 - bit can have bit = 1 on some el # 0,
\* and one that satisfies only el * bit = 0 can have bit = 0 on el = 0
C11_IsEqZeroSound ==
    /\ (op = "prove_is_eq_zero" /\ out.inv_cs /\ out.bit_cs) =>
           (out.bit = 1 <=> inp.el = 0)
    /\ \E el \in Fq \ {0}, inv \in Fq :
           boolean_cs(1) /\ is_eq_zero_inv_cs(el, 1, inv)
    /\ \E inv \in Fq :
           boolean_cs(0) /\ is_eq_zero_bit_cs(0, 0, inv)
               /\ ~is_eq_zero_inv_cs(0, 0, inv)

\* C11's case: an assignment on el # 0 that satisfies the first constraint
\* with bit = 1 and is caught by the second alone
C11_Witness ==
    /\ op = "prove_is_eq_zero"
    /\ inp.el # 0
    /\ out.bit = 1
    /\ out.inv_cs
    /\ ~out.bit_cs
    /\ ~out.is_satisfied

\* the first n elements of a sequence
Truncate(seq, n) == [i \in 1 .. n |-> seq[i]]

\* C12: on keys and hashes of different lengths batch_verify_hashes reports no
\* length error; it decides the pairing equation on both sequences cut to the
\* shorter length, and with one of them empty it accepts exactly the identity
C12_UnequalLengthsTruncate ==
    (op = "batch_verify_hashes"
        /\ Len(inp.pubkeys) # Len(inp.message_hashes)) =>
        LET n == IF Len(inp.pubkeys) <= Len(inp.message_hashes)
                 THEN Len(inp.pubkeys) ELSE Len(inp.message_hashes)
            accepted == PairingEquation(inp.sig, Truncate(inp.pubkeys, n),
                                        Truncate(inp.message_hashes, n))
        IN  /\ out.result = IF accepted THEN Ok("unit") ELSE VerificationFailed
            /\ n = 0 => (out.result = Ok("unit") <=> inp.sig = G1_zero)

\* C12's case: two keys and one hash, the surplus key ignored and a signature
\* that is not the identity accepted
C12_Witness ==
    /\ op = "batch_verify_hashes"
    /\ Len(inp.pubkeys) = 2
    /\ Len(inp.message_hashes) = 1
    /\ inp.sig # G1_zero
    /\ inp.pubkeys[2] # 0
    /\ out.result = Ok("unit")

====
